---- MODULE Spec2Model ----
(***************************************************************************)
(* Model of puch.py: the MCP tool `resume`, which reads a local resume     *)
(* file, converts it to markdown (pdfplumber for .pdf, pypandoc for the    *)
(* rest), POSTs the markdown to the Puch endpoint and returns it.          *)
(*                                                                         *)
(* A python str is a sequence of one-character strings; a formatted        *)
(* message is the concatenation of its literal pieces (kept as one token   *)
(* each) and of the texts substituted into it.  The three external         *)
(* libraries (pdfplumber, pypandoc, httpx) are inputs: what they answer    *)
(* for a given file or request is drawn from the sets below.               *)
(***************************************************************************)
EXTENDS Integers, Sequences, FiniteSets, TLC

VARIABLES
    endpoint,       \* PUCH_MCP_ENDPOINT, the configured endpoint (a str or None)
    loc,            \* the disk: the one place where a file exists
    file,           \* the disk: what the three readers answer on that file
    edited,         \* the file was edited since the previous invocation ended
    pc,             \* position of the current invocation of resume
    resume_path,    \* argument of the current invocation
    path,           \* Path(resume_path).expanduser()
    suffix,         \* path.suffix.lower()
    converted,      \* the current invocation reached the conversion step
    markdown_text,  \* the converted text
    sent,           \* number of POST requests issued by the current invocation
    request,        \* the last POST put on the wire
    net,            \* what client.post did for the current invocation
    sub,            \* what submit_to_puch gave back to resume
    result,         \* how the current invocation ended
    prev,           \* the previous invocation: its argument and how it ended
    pdf_pages,      \* pdf_to_markdown alone: page.extract_text() of each page
    pdf_out         \* pdf_to_markdown alone: its return value

vars == << endpoint, loc, file, edited, pc, resume_path, path, suffix,
           converted, markdown_text, sent, request, net, sub, result, prev,
           pdf_pages, pdf_out >>

resumeVars == << endpoint, loc, file, edited, pc, resume_path, path, suffix,
                 converted, markdown_text, sent, request, net, sub, result, prev >>

pdfVars == << pdf_pages, pdf_out >>

----------------------------------------------------------------------------
(* Python values *)

\* None; no str is this value, a str being made of one-character strings.
NoneVal == << "<None>" >>

\* The characters str.strip() removes: those str.isspace() holds of.  The
\* ones TLA+ has no escape for are named by their code point.
Whitespace ==
    { " ", "\t", "\n", "\r", "\f",
      "<U+000B>", "<U+001C>", "<U+001D>", "<U+001E>", "<U+001F>",
      "<U+0085>", "<U+00A0>", "<U+1680>", "<U+2000>", "<U+2001>",
      "<U+2002>", "<U+2003>", "<U+2004>", "<U+2005>", "<U+2006>",
      "<U+2007>", "<U+2008>", "<U+2009>", "<U+200A>", "<U+2028>",
      "<U+2029>", "<U+202F>", "<U+205F>", "<U+3000>" }

\* bool(x) of an Optional[str]: None and "" are falsy.
Truthy(x) == x # NoneVal /\ x # << >>

RECURSIVE lstrip(_)
lstrip(s) ==
    IF s # << >> /\ Head(s) \in Whitespace THEN lstrip(Tail(s)) ELSE s

RECURSIVE rstrip(_)
rstrip(s) ==
    IF s # << >> /\ s[Len(s)] \in Whitespace
    THEN rstrip(SubSeq(s, 1, Len(s) - 1))
    ELSE s

\* str.strip()
strip(s) == rstrip(lstrip(s))

\* sep.join(parts)
RECURSIVE join(_, _)
join(sep, parts) ==
    IF parts = << >> THEN << >>
    ELSE IF Len(parts) = 1 THEN parts[1]
    ELSE parts[1] \o sep \o join(sep, Tail(parts))

\* str.startswith(prefix)
startswith(s, prefix) ==
    /\ Len(s) >= Len(prefix)
    /\ SubSeq(s, 1, Len(prefix)) = prefix

\* str.lower(), on the letters that occur in the suffixes below
LowerChar(c) ==
    CASE c = "P" -> "p"
      [] c = "D" -> "d"
      [] c = "F" -> "f"
      [] c = "M" -> "m"
      [] c = "O" -> "o"
      [] c = "C" -> "c"
      [] c = "X" -> "x"
      [] c = "T" -> "t"
      [] OTHER -> c

lower(s) == [i \in 1..Len(s) |-> LowerChar(s[i])]

----------------------------------------------------------------------------
(* pdf_to_markdown *)

\* The loop over pdf.pages: a page whose extract_text() is truthy appends its
\* stripped text to text_parts.
RECURSIVE text_parts(_)
text_parts(pages) ==
    IF pages = << >> THEN << >>
    ELSE (IF Truthy(Head(pages)) THEN << strip(Head(pages)) >> ELSE << >>)
         \o text_parts(Tail(pages))

ParagraphBreak == << "\n", "\n" >>

pdf_to_markdown(pages) == strip(join(ParagraphBreak, text_parts(pages)))

----------------------------------------------------------------------------
(* pdf_to_markdown alone, on every document of at most MaxPages pages *)

MaxPages == 4

\* What page.extract_text() may answer for one page.
PageTexts ==
    { NoneVal, << >>, << " " >>, << "\t", "\r" >>, << "a" >>,
      << " ", "b", "\n" >> }

PageSeqs == UNION { [1..n -> PageTexts] : n \in 0..MaxPages }

NotRun == << "<not run>" >>

PdfInit ==
    /\ pdf_pages \in PageSeqs
    /\ pdf_out = NotRun

\* One call of pdf_to_markdown on the document.
PdfRun ==
    /\ pdf_out = NotRun
    /\ pdf_out' = pdf_to_markdown(pdf_pages)
    /\ UNCHANGED pdf_pages

----------------------------------------------------------------------------
(* Configuration (module constants of puch.py) *)

TOKEN == << "<YOUR_APPLICATION_KEY>" >>
MY_NUMBER == << "919XXXXXXXXX" >>

Http == << "h", "t", "t", "p" >>

\* Values PUCH_MCP_ENDPOINT may be configured to; the last is the one in the
\* file.  After its first characters an endpoint is kept as one token.
Endpoints ==
    { NoneVal,
      << >>,
      << "h", "t" >>,
      << "f", "t", "p", "://puch.example.com" >>,
      Http \o << "://puch.example.com/mcp/receive_resume" >>,
      Http \o << "s", "://puch.example.com/mcp/receive_resume" >> }

----------------------------------------------------------------------------
(* Paths and the disk *)

\* A path: its directory components, the stem of its last component and the
\* extension of the last component, character by character.
MkPath(parts, name, ext) == [parts |-> parts, name |-> name, ext |-> ext]

NoPath == MkPath(<< >>, "", << >>)

\* A file name longer than NAME_MAX (255 bytes): 'a' * 300.
LongName == "<'a' x 300>"

\* The arguments resume is called with; the first is the default argument
\* under another spelling of its extension.
Paths ==
    { MkPath(<< >>, "resume", << ".", "p", "d", "f" >>),
      MkPath(<< "~" >>, "cv", << ".", "P", "D", "F" >>),
      MkPath(<< "docs" >>, "cv", << ".", "M", "d" >>),
      MkPath(<< "~root" >>, "cv", << ".", "t", "x", "t" >>),
      MkPath(<< >>, LongName, << ".", "p", "d", "f" >>),
      MkPath(<< >>, "cv", << ".", "x", "y", "z" >>),
      MkPath(<< "~ghost" >>, "cv", << ".", "m", "d" >>) }

HomeDir == "/home/u"

\* The first components expanduser() looks at: "~" and "~user".
Tildes == { "~", "~root", "~ghost" }

\* The home directory of the current user ("~") and of the users that have
\* one ("~root"); "" for a user that has none.
HomeOf(t) ==
    CASE t = "~" -> HomeDir
      [] t = "~root" -> "/root"
      [] OTHER -> ""

\* Outcome of a call that returns a value or raises: ok, the value, str(e),
\* and the class of the exception: "Exception" for the subclasses of
\* Exception, its own name for a BaseException that is not one
\* (KeyboardInterrupt, asyncio.CancelledError).
Ok(v) == [ok |-> TRUE, v |-> v, err |-> << >>, cls |-> ""]
Raise(e) == [ok |-> FALSE, v |-> << >>, err |-> e, cls |-> "Exception"]
RaiseBase(c, e) == [ok |-> FALSE, v |-> << >>, err |-> e, cls |-> c]

\* Path.expanduser(): a leading "~" or "~user" becomes the home directory of
\* that user; when there is none, RuntimeError is raised.
expanduser(p) ==
    IF p.parts # << >> /\ p.parts[1] \in Tildes
    THEN IF HomeOf(p.parts[1]) # ""
         THEN [ok |-> TRUE,
               v |-> MkPath(<< HomeOf(p.parts[1]) >> \o Tail(p.parts),
                            p.name, p.ext),
               err |-> << >>]
         ELSE [ok |-> FALSE, v |-> NoPath,
               err |-> << "Could not determine home directory." >>]
    ELSE [ok |-> TRUE, v |-> p, err |-> << >>]

\* str(path)
RECURSIVE dirstr(_)
dirstr(parts) ==
    IF parts = << >> THEN << >>
    ELSE << Head(parts), "/" >> \o dirstr(Tail(parts))

pathstr(p) == dirstr(p.parts) \o << p.name >> \o p.ext

\* The places a file can be at.
Locs ==
    { expanduser(p).v :
        p \in { q \in Paths : expanduser(q).ok /\ q.name # LongName } }

\* pdfplumber on the file: opening or extracting raises, or each page
\* answers its text (None, "", or a str).
PdfViews ==
    { Raise(<< "No /Root object! - Is this really a PDF?" >>),
      Ok(<< >>),
      Ok(<< NoneVal, << "\t", "\n" >> >>),
      Ok(<< << "\t" >>, << "a" >> >>),
      Ok(<< << " ", "a" >>, << >>, << "b", "\n" >> >>) }

\* pypandoc.convert_file(path, 'md') on the file.
PandocViews ==
    { Raise(<< "No pandoc was found" >>),
      RaiseBase("KeyboardInterrupt", << >>),
      Ok(<< >>),
      Ok(<< "\t", "\r", "\n" >>),
      Ok(<< "#", " ", "a", "\n" >>) }

\* The bytes of the file; BadByte is a byte sequence that is not valid UTF-8.
BadByte == "<0xff>"

ByteSeqs ==
    { << >>,
      << "\t", BadByte, "\n" >>,
      << "a", "\r", "\n", BadByte, "b", "\r" >> }

Files ==
    [pdf : PdfViews, pandoc : PandocViews, bytes : ByteSeqs,
     readable : BOOLEAN]

\* Path.exists(): whether the file is there; the stat() of a name longer
\* than NAME_MAX fails with ENAMETOOLONG, an OSError that exists() lets
\* through (Python 3.11).
exists(p) ==
    IF p.name = LongName
    THEN [raised |-> TRUE, v |-> FALSE,
          err |-> << "[Errno 36] File name too long: '" >> \o pathstr(p)
                  \o << "'" >>]
    ELSE [raised |-> FALSE, v |-> p = loc, err |-> << >>]

\* Text mode with universal newlines: "\r\n" and a lone "\r" are read as
\* "\n".
RECURSIVE universal_newlines(_)
universal_newlines(s) ==
    IF s = << >> THEN << >>
    ELSE IF Head(s) = "\r"
    THEN IF Len(s) >= 2 /\ s[2] = "\n"
         THEN << "\n" >> \o universal_newlines(Tail(Tail(s)))
         ELSE << "\n" >> \o universal_newlines(Tail(s))
    ELSE << Head(s) >> \o universal_newlines(Tail(s))

\* Path.read_text(encoding="utf-8", errors="ignore"): the bytes decoded with
\* the invalid sequences dropped, then the newlines translated; the
\* PermissionError of an unreadable file carries the path.
read_text(p, f) ==
    IF f.readable
    THEN Ok(universal_newlines(SelectSeq(f.bytes, LAMBDA b : b # BadByte)))
    ELSE Raise(<< "[Errno 13] Permission denied: '" >> \o pathstr(p)
               \o << "'" >>)

----------------------------------------------------------------------------
(* How an invocation ends: a returned str, or a raised McpError(ErrorData)   *)

Return(text) == [kind |-> "return", code |-> "", text |-> text]
McpError(text) == [kind |-> "McpError", code |-> "INTERNAL_ERROR", text |-> text]
NoResult == [kind |-> "", code |-> "", text |-> << >>]

not_found(p) ==
    Return(<< "<error>Resume file not found at: " >> \o pathstr(p)
           \o << "</error>" >>)

\* The conversion's except clause missing: the exception reaches the
\* outermost one.
convert_failed_fatal(e) ==
    McpError(<< "Unexpected error in resume tool: " >> \o e)

convert_failed(e) ==
    Return(<< "<error>Failed to convert resume to markdown: " >> \o e
           \o << "</error>" >>)

empty_result == Return(<< "<error>Converted resume is empty.</error>" >>)

post_failed(resp_text) ==
    McpError(<< "Failed to POST resume to Puch endpoint: " >> \o resp_text)

http_failed(status_code, resp_text) ==
    McpError(<< "Puch endpoint returned ", ToString(status_code), ": " >>
             \o resp_text)

unexpected(e) == McpError(<< "Unexpected error in resume tool: " >> \o e)

\* An exception that no except clause of resume catches leaves resume: one
\* whose class c is not a subclass of Exception.
propagated(c, e) == [kind |-> c, code |-> "", text |-> e]

----------------------------------------------------------------------------
(* Step 1 of resume: the file to markdown *)

Pdf == << ".", "p", "d", "f" >>

TextSuffixes ==
    { << ".", "d", "o", "c", "x" >>, << ".", "d", "o", "c" >>,
      << ".", "o", "d", "t" >>, << ".", "m", "d" >>, << ".", "t", "x", "t" >> }

\* The dispatch with the raw-read fallback given to the text kinds too.
convert_fallback(sfx, p, f) ==
    IF sfx = Pdf
    THEN IF f.pdf.ok THEN Ok(pdf_to_markdown(f.pdf.v)) ELSE f.pdf
    ELSE IF f.pandoc.ok \/ f.pandoc.cls # "Exception"
    THEN f.pandoc
    ELSE read_text(p, f)

\* The dispatch on the suffix, with the exception that leaves it if any.
\* The inner except clause of the unknown kinds catches the subclasses of
\* Exception only.
convert(sfx, p, f) ==
    IF sfx = Pdf
    THEN IF f.pdf.ok THEN Ok(pdf_to_markdown(f.pdf.v)) ELSE f.pdf
    ELSE IF sfx \in TextSuffixes
    THEN f.pandoc
    ELSE IF f.pandoc.ok \/ f.pandoc.cls # "Exception"
    THEN f.pandoc
    ELSE read_text(p, f)

\* The emptiness check without the strip().
is_empty_unstripped(md) == ~Truthy(md)

\* not markdown_text or markdown_text.strip() == ""
is_empty(md) == ~Truthy(md) \/ strip(md) = << >>

----------------------------------------------------------------------------
(* Step 2 of resume: the submission *)

\* The endpoint check without the startswith("http").
should_submit_nonempty(ep) == Truthy(ep)

\* PUCH_MCP_ENDPOINT and PUCH_MCP_ENDPOINT.startswith("http")
should_submit(ep) == Truthy(ep) /\ startswith(ep, Http)

\* The request submit_to_puch puts on the wire.
post_request(ep, app_key, phone, md) ==
    [url |-> ep,
     authorization |-> << "Bearer " >> \o app_key,
     content_type |-> "application/json",
     phone |-> phone,
     resume_markdown |-> md]

NoRequest == post_request(<< >>, << >>, << >>, << >>)

\* What client.post may do: answer with a status and a body, raise an
\* httpx.HTTPError (ConnectError, ReadTimeout, ...), raise an exception of
\* another class (httpx.InvalidURL, ...), or be cancelled while awaited
\* (asyncio.CancelledError, a BaseException).
Response(status_code, text) ==
    [t |-> "response", status_code |-> status_code, text |-> text]
HTTPErrorRaised(e) == [t |-> "HTTPError", status_code |-> 0, text |-> e]
OtherRaised(e) == [t |-> "Exception", status_code |-> 0, text |-> e]
Cancelled == [t |-> "CancelledError", status_code |-> 0, text |-> << >>]
NoNet == [t |-> "", status_code |-> 0, text |-> << >>]

StatusCodes == {200, 399, 400, 500}

Bodies == { << >>, << "o", "k" >> }

PostOutcomes ==
    { Response(c, b) : c \in StatusCodes, b \in Bodies }
    \cup { HTTPErrorRaised(<< "All connection attempts failed" >>),
           HTTPErrorRaised(<< >>),
           OtherRaised(<< "Invalid port: 'x'" >>),
           Cancelled }

\* submit_to_puch without its except clause.
submit_to_puch_uncaught(o) ==
    IF o.t = "response"
    THEN [raised |-> FALSE, cls |-> "", status_code |-> o.status_code,
          text |-> o.text]
    ELSE [raised |-> TRUE,
          cls |-> IF o.t = "CancelledError" THEN o.t ELSE "Exception",
          status_code |-> 0, text |-> o.text]

\* submit_to_puch: the pair it returns, or the exception it lets through.
submit_to_puch(o) ==
    IF o.t = "response"
    THEN [raised |-> FALSE, cls |-> "", status_code |-> o.status_code,
          text |-> o.text]
    ELSE IF o.t = "HTTPError"
    THEN [raised |-> FALSE, cls |-> "", status_code |-> 0, text |-> o.text]
    ELSE [raised |-> TRUE, cls |-> o.t, status_code |-> 0, text |-> o.text]

NoSub == [raised |-> FALSE, cls |-> "", status_code |-> 0, text |-> << >>]

\* The checks on the pair with > 400 for >= 400.
interpret_above400(s, md) ==
    IF s.raised
    THEN IF s.cls = "Exception"
         THEN McpError(<< "Unexpected error in resume tool: " >> \o s.text)
         ELSE [kind |-> s.cls, code |-> "", text |-> s.text]
    ELSE IF s.status_code = 0
    THEN McpError(<< "Failed to POST resume to Puch endpoint: " >> \o s.text)
    ELSE IF s.status_code > 400
    THEN McpError(<< "Puch endpoint returned ", ToString(s.status_code), ": " >>
                  \o s.text)
    ELSE Return(md)

\* The checks on the pair with the redirections (>= 300) taken for failures.
interpret_from300(s, md) ==
    IF s.raised
    THEN IF s.cls = "Exception"
         THEN McpError(<< "Unexpected error in resume tool: " >> \o s.text)
         ELSE [kind |-> s.cls, code |-> "", text |-> s.text]
    ELSE IF s.status_code = 0
    THEN McpError(<< "Failed to POST resume to Puch endpoint: " >> \o s.text)
    ELSE IF s.status_code >= 300
    THEN McpError(<< "Puch endpoint returned ", ToString(s.status_code), ": " >>
                  \o s.text)
    ELSE Return(md)

\* resume after the await: the checks on the pair, step 3, and the two
\* except clauses around the body, which catch McpError and the subclasses
\* of Exception; an exception of another class leaves resume as it is.
interpret(s, md) ==
    IF s.raised
    THEN IF s.cls = "Exception" THEN unexpected(s.text)
         ELSE propagated(s.cls, s.text)
    ELSE IF s.status_code = 0 THEN post_failed(s.text)
    ELSE IF s.status_code >= 400 THEN http_failed(s.status_code, s.text)
    ELSE Return(md)

----------------------------------------------------------------------------
(* The invocations of resume *)

NoCall ==
    [valid |-> FALSE, resume_path |-> NoPath, result |-> NoResult,
     sent |-> 0, net |-> NoNet]

Init ==
    /\ endpoint \in Endpoints
    /\ loc \in Locs
    /\ file \in Files
    /\ edited = FALSE
    /\ pc = "idle"
    /\ resume_path = NoPath
    /\ path = NoPath
    /\ suffix = << >>
    /\ converted = FALSE
    /\ markdown_text = << >>
    /\ sent = 0
    /\ request = NoRequest
    /\ net = NoNet
    /\ sub = NoSub
    /\ result = NoResult
    /\ prev = NoCall
    /\ pdf_pages = << >>
    /\ pdf_out = NotRun

\* The file is edited between two invocations: what one of its readers
\* answers on it changes.
EditFile ==
    /\ pc = "idle"
    /\ file' \in { f \in Files :
                    Cardinality({ k \in DOMAIN f : f[k] # file[k] }) = 1 }
    /\ edited' = TRUE
    /\ UNCHANGED << endpoint, loc, pc, resume_path, path, suffix, converted,
                    markdown_text, sent, request, net, sub, result, prev >>

\* resume(resume_path) up to the dispatch on the suffix: expanduser, the
\* existence check, the suffix.  An exception of expanduser or of exists
\* reaches the outermost except clause.
Resolve(p) ==
    /\ pc = "idle"
    /\ resume_path' = p
    /\ LET e == expanduser(p) IN
         IF ~e.ok
         THEN /\ pc' = "done"
              /\ result' = unexpected(e.err)
              /\ UNCHANGED << path, suffix >>
         ELSE IF exists(e.v).raised
         THEN /\ pc' = "done"
              /\ result' = unexpected(exists(e.v).err)
              /\ path' = e.v
              /\ UNCHANGED suffix
         ELSE IF ~exists(e.v).v
         THEN /\ pc' = "done"
              /\ result' = not_found(e.v)
              /\ path' = e.v
              /\ UNCHANGED suffix
         ELSE /\ pc' = "convert"
              /\ path' = e.v
              /\ suffix' = lower(e.v.ext)
              /\ UNCHANGED result
    /\ UNCHANGED << endpoint, loc, file, edited, converted, markdown_text,
                    sent, request, net, sub, prev >>

\* The emptiness check and the submission, with the POST left out when the
\* markdown is the one of the last POST.
DispatchDedup(md) ==
    /\ markdown_text' = md
    /\ IF is_empty(md)
       THEN /\ pc' = "done"
            /\ result' = empty_result
            /\ UNCHANGED << sent, request >>
       ELSE IF should_submit(endpoint) /\ request.resume_markdown # md
       THEN /\ pc' = "posting"
            /\ request' = post_request(endpoint, TOKEN, MY_NUMBER, md)
            /\ sent' = sent + 1
            /\ UNCHANGED result
       ELSE /\ pc' = "done"
            /\ result' = Return(md)
            /\ UNCHANGED << sent, request >>

\* resume from the emptiness check to the await: the empty result, the POST
\* put on the wire, or the markdown returned without a submission.
Dispatch(md) ==
    /\ markdown_text' = md
    /\ IF is_empty(md)
       THEN /\ pc' = "done"
            /\ result' = empty_result
            /\ UNCHANGED << sent, request >>
       ELSE IF should_submit(endpoint)
       THEN /\ pc' = "posting"
            /\ request' = post_request(endpoint, TOKEN, MY_NUMBER, md)
            /\ sent' = sent + 1
            /\ UNCHANGED result
       ELSE /\ pc' = "done"
            /\ result' = Return(md)
            /\ UNCHANGED << sent, request >>

\* resume from the conversion to the await.  The except clause of the
\* conversion catches the subclasses of Exception; an exception of another
\* class leaves resume as it is.
Convert ==
    /\ pc = "convert"
    /\ converted' = TRUE
    /\ LET c == convert(suffix, path, file) IN
         IF ~c.ok
         THEN /\ pc' = "done"
              /\ result' = IF c.cls = "Exception"
                            THEN convert_failed(c.err)
                            ELSE propagated(c.cls, c.err)
              /\ UNCHANGED << markdown_text, sent, request >>
         ELSE Dispatch(c.v)
    /\ UNCHANGED << endpoint, loc, file, edited, resume_path, path, suffix,
                    net, sub, prev >>

\* The await of submit_to_puch completes and resume ends.
Respond ==
    /\ pc = "posting"
    /\ \E o \in PostOutcomes :
         /\ net' = o
         /\ sub' = submit_to_puch(o)
         /\ result' = interpret(submit_to_puch(o), markdown_text)
    /\ pc' = "done"
    /\ UNCHANGED << endpoint, loc, file, edited, resume_path, path, suffix,
                    converted, markdown_text, sent, request, prev >>

\* The invocation is over; the server waits for the next one.
NextCall ==
    /\ pc = "done"
    /\ prev' = [valid |-> TRUE, resume_path |-> resume_path,
                result |-> result, sent |-> sent, net |-> net]
    /\ edited' = FALSE
    /\ pc' = "idle"
    /\ resume_path' = NoPath
    /\ path' = NoPath
    /\ suffix' = << >>
    /\ converted' = FALSE
    /\ markdown_text' = << >>
    /\ sent' = 0
    /\ net' = NoNet
    /\ sub' = NoSub
    /\ result' = NoResult
    /\ UNCHANGED << endpoint, loc, file, request >>

Next ==
    \/ (\E p \in Paths : Resolve(p)) /\ UNCHANGED pdfVars
    \/ Convert /\ UNCHANGED pdfVars
    \/ Respond /\ UNCHANGED pdfVars
    \/ NextCall /\ UNCHANGED pdfVars
    \/ EditFile /\ UNCHANGED pdfVars

Spec == Init /\ [][Next]_vars

\* pdf_to_markdown alone: no invocation of resume runs.
InitPdf ==
    /\ PdfInit
    /\ endpoint = NoneVal
    /\ loc = NoPath
    /\ file \in { f \in Files : ~f.pdf.ok /\ ~f.pandoc.ok /\ f.bytes = << >>
                               /\ ~f.readable }
    /\ edited = FALSE
    /\ pc = "idle"
    /\ resume_path = NoPath
    /\ path = NoPath
    /\ suffix = << >>
    /\ converted = FALSE
    /\ markdown_text = << >>
    /\ sent = 0
    /\ request = NoRequest
    /\ net = NoNet
    /\ sub = NoSub
    /\ result = NoResult
    /\ prev = NoCall

NextPdf == PdfRun /\ UNCHANGED resumeVars

SpecPdf == InitPdf /\ [][NextPdf]_vars

----------------------------------------------------------------------------
(* Vocabulary of the properties *)

\* needle occurs in hay
Contains(hay, needle) ==
    \E i \in 0..(Len(hay) - Len(needle)) :
        SubSeq(hay, i + 1, i + Len(needle)) = needle

\* The text is empty or made of whitespace only.
Blank(t) == \A i \in 1..Len(t) : t[i] \in Whitespace

\* The invocation is over and it had put a POST on the wire.
Submitted == pc = "done" /\ sent > 0

\* The invocation is over and it had reached the conversion step.
Converted == pc = "done" /\ converted

\* An HTTP response came back with a status below 400.
Functioning(o) == o.t = "response" /\ o.status_code < 400

\* The endpoint is unset, empty, or does not begin with "http".
EndpointUnusable ==
    \/ endpoint = NoneVal
    \/ endpoint = << >>
    \/ Len(endpoint) < 4
    \/ << endpoint[1], endpoint[2], endpoint[3], endpoint[4] >> # Http

\* The kind of the resolved file.
IsPdf == suffix = Pdf
IsTextKind == suffix \in TextSuffixes
IsUnknownKind == ~IsPdf /\ ~IsTextKind

\* The file's text under a UTF-8 read that ignores invalid sequences.
RawText ==
    universal_newlines(SelectSeq(file.bytes, LAMBDA b : b # BadByte))

\* The reader raised an exception (of class Exception) on the file.
PandocFailed == ~file.pandoc.ok /\ file.pandoc.cls = "Exception"
PdfFailed == ~file.pdf.ok /\ file.pdf.cls = "Exception"

ConvertFailedText(e) ==
    << "<error>Failed to convert resume to markdown: " >> \o e
    \o << "</error>" >>

EmptyText == << "<error>Converted resume is empty.</error>" >>

\* An exception left the conversion step, with this message.
Escaped(e) ==
    \/ IsPdf /\ PdfFailed /\ e = file.pdf.err
    \/ IsTextKind /\ PandocFailed /\ e = file.pandoc.err
    \/ IsUnknownKind /\ PandocFailed /\ ~file.readable
       /\ e = read_text(path, file).err

\* The messages an exception of some part of the conversion may carry.
ErrTexts == { file.pdf.err, file.pandoc.err, read_text(path, file).err }

----------------------------------------------------------------------------
(* C1 *)

\* C1: in every invocation that attempted the submission, if submit_to_puch
\* returned status 0 or a status >= 400, the invocation ends by raising an
\* McpError whose message contains the transport error text (status 0) or
\* the status code and the response body (status >= 400); the markdown is
\* not returned.
C1_SubmissionFailureIsFatal ==
    (Submitted /\ ~sub.raised
        /\ (sub.status_code = 0 \/ sub.status_code >= 400))
    => /\ result.kind = "McpError"
       /\ result.kind # "return"
       /\ Contains(result.text, sub.text)
       /\ sub.status_code >= 400
          => Contains(result.text, << ToString(sub.status_code) >>)

C1_Witness ==
    /\ Submitted
    /\ net = Response(500, << "o", "k" >>)
    /\ result.kind = "McpError"
    /\ markdown_text # << >>

----------------------------------------------------------------------------
(* C2 *)

\* C2 as stated: whenever submit_to_puch returns a status code < 400, resume
\* returns the converted markdown unchanged, for every status the client can
\* return.
C2_AnyStatusBelow400Returns ==
    (Submitted /\ ~sub.raised /\ sub.status_code < 400)
    => result = Return(markdown_text)

\* C2 amended: whenever submit_to_puch returns a status code < 400 other
\* than the sentinel 0, resume returns the converted markdown unchanged.
C2_ResponseBelow400Returns ==
    (Submitted /\ ~sub.raised /\ sub.status_code < 400
        /\ sub.status_code # 0)
    => /\ result.kind = "return"
       /\ result.text = markdown_text
       /\ result.text = convert(suffix, path, file).v

C2_Witness ==
    /\ Submitted
    /\ net = Response(399, << >>)
    /\ result.kind = "return"
    /\ result.text = markdown_text
    /\ ~Blank(markdown_text)

----------------------------------------------------------------------------
(* C3 *)

\* C3: for every resume_path whose user-expanded path does not exist, resume
\* returns '<error>Resume file not found at: {resolved_path}</error>' (no
\* fatal error), and neither a conversion nor a POST is attempted.
C3_MissingFileIsInlineError ==
    (pc = "done" /\ expanduser(resume_path).ok
        /\ expanduser(resume_path).v # loc)
    => /\ result.kind = "return"
       /\ result.text = << "<error>Resume file not found at: " >>
                        \o pathstr(expanduser(resume_path).v)
                        \o << "</error>" >>
       /\ ~converted
       /\ sent = 0
       /\ net = NoNet

----------------------------------------------------------------------------
(* C4 *)

\* C4 as stated: when the endpoint is unset, empty or does not begin with
\* "http", no POST is issued and resume returns the converted markdown
\* verbatim, whatever the converted text is.
C4_SkippedSubmissionReturnsAnyText ==
    (Converted /\ convert(suffix, path, file).ok /\ EndpointUnusable)
    => /\ sent = 0
       /\ result = Return(convert(suffix, path, file).v)

\* C4 amended: when the endpoint is unset, empty or does not begin with
\* "http", no POST is issued, and resume returns the converted markdown
\* verbatim provided that text is not empty or all whitespace (for which it
\* returns the empty-result error string).
C4_SkippedSubmissionReturnsText ==
    (Converted /\ convert(suffix, path, file).ok /\ EndpointUnusable)
    => /\ sent = 0
       /\ net = NoNet
       /\ IF Blank(convert(suffix, path, file).v)
          THEN result = Return(EmptyText)
          ELSE result = Return(convert(suffix, path, file).v)

C4_Witness ==
    /\ Converted
    /\ endpoint = << "f", "t", "p", "://puch.example.com" >>
    /\ ~Blank(markdown_text)
    /\ result = Return(markdown_text)
    /\ sent = 0

----------------------------------------------------------------------------
(* C5 *)

\* C5 as stated: for a file of text-convertible kind, if the generic
\* conversion raises, resume falls back to the raw UTF-8 read (invalid
\* sequences ignored), so that the markdown of a non-empty file is the
\* file's text.
C5_TextKindFallsBack ==
    (Converted /\ IsTextKind /\ PandocFailed /\ file.readable
        /\ ~Blank(RawText))
    => /\ markdown_text = RawText
       /\ result.kind = "return" => result.text = RawText

\* C5 amended: for a file of text-convertible kind, if the generic
\* conversion raises (an exception of class Exception) there is no
\* fallback: resume returns
\* '<error>Failed to convert resume to markdown: {e}</error>' and submits
\* nothing.  The raw UTF-8 read (invalid sequences ignored) is the fallback
\* of the files of unknown kind only.
C5_OnlyUnknownKindFallsBack ==
    /\ (Converted /\ IsTextKind /\ PandocFailed)
       => /\ result = Return(ConvertFailedText(file.pandoc.err))
          /\ sent = 0
    /\ (Converted /\ IsUnknownKind /\ PandocFailed /\ file.readable)
       => /\ markdown_text = RawText
          /\ result.text # ConvertFailedText(file.pandoc.err)

C5_Witness ==
    /\ Converted
    /\ suffix = << ".", "t", "x", "t" >>
    /\ PandocFailed
    /\ file.readable
    /\ ~Blank(RawText)
    /\ result = Return(ConvertFailedText(file.pandoc.err))

----------------------------------------------------------------------------
(* C6 *)

\* C6: whenever the conversion yields a text that is empty or all
\* whitespace (a PDF with no extractable text, for one), resume returns
\* '<error>Converted resume is empty.</error>' and attempts no POST.
C6_EmptyConversionIsInlineError ==
    (Converted /\ convert(suffix, path, file).ok /\ Blank(convert(suffix, path, file).v))
    => /\ result = Return(EmptyText)
       /\ sent = 0
       /\ net = NoNet

C6_Witness ==
    /\ Converted
    /\ IsPdf
    /\ file.pdf.ok
    /\ Len(file.pdf.v) = 2
    /\ result = Return(EmptyText)
    /\ should_submit(endpoint)

----------------------------------------------------------------------------
(* C7 *)

\* C7 as stated: any exception raised during the conversion step (PDF
\* extraction, generic conversion or raw read), for any file kind, is turned
\* into '<error>Failed to convert resume to markdown: {e}</error>'; it never
\* becomes a fatal error and no submission follows.
C7_AnyConversionExceptionIsInlineError ==
    (Converted
        /\ \/ IsPdf /\ PdfFailed
           \/ ~IsPdf /\ PandocFailed)
    => /\ result.kind = "return"
       /\ \E e \in ErrTexts : result.text = ConvertFailedText(e)
       /\ sent = 0

\* C7 amended: any exception of class Exception that leaves the conversion
\* step (raised by the PDF extraction, by the generic conversion of a text-convertible file, or
\* by the raw read of a file of unknown kind) is turned into
\* '<error>Failed to convert resume to markdown: {e}</error>', never into a
\* fatal error, and no submission follows; an exception of the generic
\* conversion of a file of unknown kind is absorbed by the raw-read
\* fallback, and the invocation goes on with the text read.
C7_EscapedConversionExceptionIsInlineError ==
    /\ \A e \in ErrTexts :
         (Converted /\ Escaped(e))
         => /\ result.kind = "return"
            /\ result.text = ConvertFailedText(e)
            /\ sent = 0
            /\ net = NoNet
    /\ (Converted /\ IsUnknownKind /\ PandocFailed /\ file.readable)
       => /\ markdown_text = RawText
          /\ \A e \in ErrTexts : result.text # ConvertFailedText(e)

C7_Witness ==
    /\ Converted
    /\ IsUnknownKind
    /\ PandocFailed
    /\ ~file.readable
    /\ result = Return(ConvertFailedText(
                    << "[Errno 13] Permission denied: '" >> \o pathstr(path)
                    \o << "'" >>))
    /\ should_submit(endpoint)

----------------------------------------------------------------------------
(* C8 *)

\* C8: two successive invocations on the same unchanged file, with an
\* endpoint that answers below 400 to what is submitted to it, return the
\* same markdown both times, and the POST is issued exactly twice: once per
\* invocation.
C8_TwoCallsSameMarkdownTwoPosts ==
    (/\ pc = "done"
     /\ prev.valid
     /\ prev.resume_path = resume_path
     /\ ~edited
     /\ Functioning(prev.net)
     /\ net.t # "" => Functioning(net))
    => /\ result.kind = "return"
       /\ result = prev.result
       /\ result.text = markdown_text
       /\ prev.sent = 1
       /\ sent = 1
       /\ prev.sent + sent = 2

C8_Witness ==
    /\ pc = "done"
    /\ prev.valid
    /\ prev.resume_path = resume_path
    /\ ~edited
    /\ Functioning(prev.net)
    /\ Functioning(net)
    /\ result = prev.result
    /\ prev.sent + sent = 2

----------------------------------------------------------------------------
(* C9 *)

\* The claimed result: the pages that yield text, trimmed, in page order,
\* with one paragraph break between two consecutive ones.  A page "yields no
\* text" when its text is None or empty; the claim is read both with and
\* without the pages of whitespace only counted among them.
RECURSIVE Trimmed(_)
Trimmed(pages) ==
    IF pages = << >> THEN << >>
    ELSE << strip(Head(pages)) >> \o Trimmed(Tail(pages))

ClaimedPdf(pages, blankYieldsText) ==
    join(ParagraphBreak,
         Trimmed(SelectSeq(pages,
                           LAMBDA t : /\ t # NoneVal
                                      /\ t # << >>
                                      /\ blankYieldsText \/ ~Blank(t))))

\* C9: pdf_to_markdown returns the texts of the pages in page order, each
\* trimmed, every page that yields no text skipped, with exactly one
\* paragraph break between consecutive surviving pages.
C9_PagesTrimmedSkippedJoined ==
    pdf_out # NotRun
    => \/ pdf_out = ClaimedPdf(pdf_pages, FALSE)
       \/ pdf_out = ClaimedPdf(pdf_pages, TRUE)

----------------------------------------------------------------------------
(* C10 *)

\* C10 as stated: on any exception that keeps the HTTP response from being
\* received (DNS failure, refused connection, timeout, or any other failure
\* of the POST) submit_to_puch returns (0, str(e)) and propagates nothing;
\* it returns status 0 in that case only.
C10_AnyPostExceptionIsSentinel ==
    /\ (Submitted /\ net.t \in {"HTTPError", "Exception"})
       => /\ ~sub.raised
          /\ sub.status_code = 0
          /\ sub.text = net.text
    /\ (Submitted /\ ~sub.raised /\ sub.status_code = 0)
       => net.t # "response"

\* C10 amended: on any httpx.HTTPError raised by the POST (DNS failure,
\* refused connection, timeout, protocol error) submit_to_puch returns
\* (0, str(e)) and propagates nothing, and it returns status 0 in that case
\* only; an exception of another class propagates to resume, which raises
\* the McpError "Unexpected error in resume tool" for a subclass of
\* Exception (an invalid URL, for one) and lets through an exception that is
\* none (asyncio.CancelledError).
C10_HTTPErrorIsSentinel ==
    /\ (Submitted /\ net.t = "HTTPError")
       => /\ ~sub.raised
          /\ sub.status_code = 0
          /\ sub.text = net.text
    /\ (Submitted /\ ~sub.raised /\ sub.status_code = 0)
       => net.t = "HTTPError"
    /\ (Submitted /\ net.t = "Exception")
       => /\ sub.raised
          /\ result.kind = "McpError"
          /\ result.text = << "Unexpected error in resume tool: " >>
                           \o net.text
    /\ (Submitted /\ net.t = "CancelledError")
       => /\ sub.raised
          /\ result.kind = "CancelledError"

C10_Witness ==
    /\ Submitted
    /\ net = HTTPErrorRaised(<< "All connection attempts failed" >>)
    /\ ~sub.raised
    /\ sub.status_code = 0
    /\ sub.text = << "All connection attempts failed" >>

====
